---- MODULE Spec2Model ----
(***************************************************************************)
(* The three Flask programs of the repository and the seed script:         *)
(*   app/app.py      Game / Review / User read API over db/app.db          *)
(*   app/seed.py     the seed script of db/app.db                          *)
(*   server/app.py   Newsletter RESTful API (GET, POST) over newsletters.db*)
(*   newsletters/app.py  the index-only Newsletter API                     *)
(* Each program is its own process with its own database, so a behaviour   *)
(* follows one of them (program); the seed script runs against the         *)
(* database of app/app.py.                                                 *)
(***************************************************************************)
EXTENDS Integers, Sequences, FiniteSets, TLC

VARIABLES
    program,      \* which Flask program this behaviour follows
    games_table,  \* committed rows of table games      (db/app.db)
    reviews_table,\* committed rows of table reviews    (db/app.db)
    users_table,  \* committed rows of table users      (db/app.db)
    seedpc,       \* position of the seed script
    txn,          \* the seed session's uncommitted view of the three tables
    mem,          \* the seed script's Python objects and local variables
    newsletters,  \* committed rows of table newsletters (newsletters.db)
    created,      \* history: the mappings POST /newsletters answered with 201
    request,      \* the HTTP request served by the last step (NoRequest if none)
    response      \* the HTTP response of the last step (NoResponse if none)

vars == <<program, games_table, reviews_table, users_table, seedpc, txn, mem,
          newsletters, created, request, response>>

appdb == <<games_table, reviews_table, users_table>>
seedvars == <<seedpc, txn, mem>>
serverdb == <<newsletters, created>>

(***************************************************************************)
(* Bounds                                                                  *)
(***************************************************************************)
\* range(100) users and range(100) games of the seed script, scaled down
NumSeeded == 2
\* rows the newsletters table may grow to
MaxNewsletters == 2
\* frames the serializer may nest before Python raises RecursionError
MaxDepth == 6

\* the values taken for randint(1, 10), the number of reviews of a user: the
\* script then holds as many reviews as games when its per-game loop starts
ReviewCounts == {1}
\* values of request.form fields
FormValues == {"a", "b"}
\* identifiers a by-identifier route is asked for: the stored ones and one more
GameIds == 1..(NumSeeded + 1)
NewsletterIds == 1..(MaxNewsletters + 1)

\* SQL NULL in a string or timestamp column, and in an integer column
Null == "null"
NullId == 0
\* the value db.func.now() stores
Now == "now"

SeqToSet(s) == {s[i] : i \in 1..Len(s)}

RECURSIVE SelectRows(_, _, _)
\* the rows r of table (in row order) with r[col] = val
SelectRows(table, col, val) ==
    IF table = <<>> THEN <<>>
    ELSE IF Head(table)[col] = val
         THEN <<Head(table)>> \o SelectRows(Tail(table), col, val)
         ELSE SelectRows(Tail(table), col, val)

(***************************************************************************)
(* models.py: columns, relationships and serialize_rules                   *)
(***************************************************************************)
Game_columns == {"id", "title", "genre", "platform", "price", "created_at", "updated_at"}
Review_columns == {"id", "score", "comment", "created_at", "updated_at", "game_id", "user_id"}
User_columns == {"id", "name", "created_at", "updated_at"}

\* reviews = db.relationship('Review', backref='game')
Game_relationships == {"reviews"}
\* reviews = db.relationship('Review', backref='user')
User_relationships == {"reviews"}
\* the two backrefs
Review_relationships == {"game", "user"}

\* Game without its rule: Game.reviews[i].game is no longer cut
Game_serialize_rules_none == {}

\* Review with '-user.reviews' left out
Review_serialize_rules_user_uncut == {<<"game", "reviews">>}

\* Review with '-game.reviews' left out
Review_serialize_rules_game_uncut == {<<"user", "reviews">>}

\* a rule '-a.b' is the path <<"a", "b">> of an excluded key
Game_serialize_rules == {<<"reviews", "game">>}
Review_serialize_rules == {<<"game", "reviews">>, <<"user", "reviews">>}
User_serialize_rules == {<<"reviews", "user">>}

\* Game.title declared without unique=True
Game_title_not_unique == FALSE

\* unique=True on Game.title
Game_title_unique == TRUE

Columns(type) ==
    CASE type = "Game" -> Game_columns
      [] type = "Review" -> Review_columns
      [] type = "User" -> User_columns

Relationships(type) ==
    CASE type = "Game" -> Game_relationships
      [] type = "Review" -> Review_relationships
      [] type = "User" -> User_relationships

SerializeRules(type) ==
    CASE type = "Game" -> Game_serialize_rules
      [] type = "Review" -> Review_serialize_rules
      [] type = "User" -> User_serialize_rules

\* the entity type a relationship leads to
Target(type, key) ==
    CASE type = "Game" /\ key = "reviews" -> "Review"
      [] type = "User" /\ key = "reviews" -> "Review"
      [] type = "Review" /\ key = "game" -> "Game"
      [] type = "Review" /\ key = "user" -> "User"

ToMany(type, key) == key = "reviews"

\* the rows a relationship of row resolves to, through the foreign keys
Related(g, r, u, type, row, key) ==
    CASE type = "Game" /\ key = "reviews" -> SelectRows(r, "game_id", row.id)
      [] type = "User" /\ key = "reviews" -> SelectRows(r, "user_id", row.id)
      [] type = "Review" /\ key = "game" -> SelectRows(g, "id", row.game_id)
      [] type = "Review" /\ key = "user" -> SelectRows(u, "id", row.user_id)

(***************************************************************************)
(* SerializerMixin.to_dict                                                 *)
(***************************************************************************)
\* a key is serialized unless a rule excludes it at this node
IsIncluded(schema, key) == <<key>> \notin schema

\* the rules that go on below key
Fork(schema, key) ==
    {Tail(p) : p \in {q \in schema : Len(q) > 1 /\ Head(q) = key}}

RecursionError == "RecursionError"
\* what stands in the result where the recursion limit was hit
Overflow == [k \in {RecursionError} |-> TRUE]

RECURSIVE Serialize(_, _, _, _, _, _, _)
\* the mapping of row: the model's own rules extend the schema inherited from
\* the parent, every included column is copied, every included relationship
\* is serialized under the forked schema
Serialize(g, r, u, type, row, schema, fuel) ==
    IF fuel = 0 THEN Overflow
    ELSE
    LET s == schema \cup SerializeRules(type)
        keys == {k \in Columns(type) \cup Relationships(type) : IsIncluded(s, k)}
        Nested(k) ==
            LET rel == Related(g, r, u, type, row, k)
                t == Target(type, k)
            IN IF ToMany(type, k)
               THEN [i \in 1..Len(rel) |->
                        Serialize(g, r, u, t, rel[i], Fork(s, k), fuel - 1)]
               ELSE IF rel = <<>> THEN Null
               ELSE Serialize(g, r, u, t, rel[1], Fork(s, k), fuel - 1)
    IN [k \in keys |-> IF k \in Columns(type) THEN row[k] ELSE Nested(k)]

RECURSIVE Paths(_, _, _, _, _, _, _)
\* the relationship paths the serialization of row walks: each a sequence of
\* <<key, type, id>> steps, ending with the step <<RecursionError, type, id>>
\* where the recursion limit is hit
Paths(g, r, u, type, row, schema, fuel) ==
    IF fuel = 0 THEN {<<<<RecursionError, type, row.id>>>>}
    ELSE
    LET s == schema \cup SerializeRules(type)
        keys == {k \in Relationships(type) : IsIncluded(s, k)}
        Below(k) ==
            LET rel == Related(g, r, u, type, row, k)
                t == Target(type, k)
            IN UNION {{<<<<k, t, rel[i].id>>>> \o p :
                          p \in Paths(g, r, u, t, rel[i], Fork(s, k), fuel - 1)} :
                      i \in 1..Len(rel)}
    IN {<<>>} \cup UNION {Below(k) : k \in keys}

\* row.to_dict()
ToDict(g, r, u, type, row) == Serialize(g, r, u, type, row, {}, MaxDepth)

TraversalPaths(g, r, u, type, row) == Paths(g, r, u, type, row, {}, MaxDepth)

\* to_dict() raises RecursionError when some path hits the recursion limit
Overflows(g, r, u, type, row) ==
    \E p \in TraversalPaths(g, r, u, type, row) :
        p # <<>> /\ p[Len(p)][1] = RecursionError

(***************************************************************************)
(* HTTP exchanges                                                          *)
(***************************************************************************)
NoForm == [k \in {} |-> ""]
NoRequest == [method |-> "NONE", path |-> "", id |-> 0, form |-> NoForm]
NoResponse == [status |-> 0, body |-> ""]

Get(path) == [method |-> "GET", path |-> path, id |-> 0, form |-> NoForm]
GetById(path, id) == [method |-> "GET", path |-> path, id |-> id, form |-> NoForm]
Post(path, form) == [method |-> "POST", path |-> path, id |-> 0, form |-> form]

\* make_response(jsonify(body), status)
MakeResponse(body, status) == [status |-> status, body |-> body]

\* what Flask answers when the view raises an exception that is no HTTPException
InternalServerError == [status |-> 500, body |-> "Internal Server Error"]
\* what Flask answers to werkzeug's BadRequestKeyError
BadRequest == [status |-> 400, body |-> "Bad Request"]

(***************************************************************************)
(* app/app.py: the routes                                                  *)
(***************************************************************************)
\* a view's call of to_dict(), with the 500 an unhandled RecursionError ends in
ToDictResponse(type, row) ==
    IF Overflows(games_table, reviews_table, users_table, type, row)
    THEN InternalServerError
    ELSE MakeResponse(ToDict(games_table, reviews_table, users_table, type, row), 200)

\* [row.to_dict() for row in table], or the 500 of the first failure
ToDictListResponse(type, table) ==
    IF \E i \in 1..Len(table) :
          Overflows(games_table, reviews_table, users_table, type, table[i])
    THEN InternalServerError
    ELSE MakeResponse(
            [i \in 1..Len(table) |->
                ToDict(games_table, reviews_table, users_table, type, table[i])],
            200)

\* the requests of the API are served between runs of the seed script: a
\* view reads committed rows only and a step of the script touches nothing a
\* view reads before its commit, so the two commute
Serving(p) == program = p /\ seedpc = "idle"

index ==
    /\ Serving("app")
    /\ request' = Get("/")
    /\ response' = MakeResponse("Index for Game/Review/User API", 200)
    /\ UNCHANGED <<program, appdb, seedvars, serverdb>>

\* a games view that deletes the rows it lists
games_deleting ==
    /\ Serving("app")
    /\ request' = Get("/games")
    /\ response' = MakeResponse(
            [i \in 1..Len(games_table) |->
                [title |-> games_table[i].title,
                 genre |-> games_table[i].genre,
                 platform |-> games_table[i].platform,
                 price |-> games_table[i].price]],
            200)
    /\ games_table' = <<>>
    /\ UNCHANGED <<program, reviews_table, users_table, seedvars, serverdb>>

games ==
    /\ Serving("app")
    /\ request' = Get("/games")
    /\ response' = MakeResponse(
            [i \in 1..Len(games_table) |->
                [title |-> games_table[i].title,
                 genre |-> games_table[i].genre,
                 platform |-> games_table[i].platform,
                 price |-> games_table[i].price]],
            200)
    /\ UNCHANGED <<program, appdb, seedvars, serverdb>>

game_by_id(id) ==
    /\ Serving("app")
    /\ request' = GetById("/games/<int:id>", id)
    /\ LET found == SelectRows(games_table, "id", id)
       IN response' = IF found = <<>>
                      THEN InternalServerError   \* None.to_dict(): AttributeError
                      ELSE ToDictResponse("Game", found[1])
    /\ UNCHANGED <<program, appdb, seedvars, serverdb>>

reviews ==
    /\ Serving("app")
    /\ request' = Get("/reviews")
    /\ response' = ToDictListResponse("Review", reviews_table)
    /\ UNCHANGED <<program, appdb, seedvars, serverdb>>

users ==
    /\ Serving("app")
    /\ request' = Get("/users")
    /\ response' = ToDictListResponse("User", users_table)
    /\ UNCHANGED <<program, appdb, seedvars, serverdb>>

(***************************************************************************)
(* app/seed.py                                                             *)
(***************************************************************************)
\* what Faker and the random module return, sampled
FakeName == "Alice"
SampleGenre == "Platformer"
SamplePlatform == "NES"
SamplePrice == 5
SampleScore == 0
\* the i-th distinct sentence fake.sentence() can return
FakeSentence(i) == "Sentence " \o ToString(i)

\* the Python objects of the script: the instances of each model in order of
\* construction (a reference is an index, 0 is None), the local list reviews,
\* and the history of the arguments of each Review(...) call
EmptyMem == [User |-> <<>>, Game |-> <<>>, Review |-> <<>>, reviews |-> <<>>,
             u |-> 0, g |-> 0, constructed |-> <<>>]

NoTxn == [games |-> <<>>, reviews |-> <<>>, users |-> <<>>]

\* list.remove(x): the first occurrence goes
RECURSIVE Remove(_, _)
Remove(list, x) ==
    IF list = <<>> THEN <<>>
    ELSE IF Head(list) = x THEN Tail(list)
    ELSE <<Head(list)>> \o Remove(Tail(list), x)

\* Review(...) called without game=: the review belongs to no game
ReviewCtor_without_game(m, u, g) ==
    LET r == Len(m.Review) + 1
    IN [m EXCEPT !.Review = Append(@, [score |-> SampleScore, comment |-> FakeSentence(r),
                                       user |-> u, game |-> 0]),
                 !.User[u].reviews = Append(@, r),
                 !.constructed = Append(@, [user |-> u, game |-> g])]

\* Review(score=..., comment=..., user=u, game=g): the two backrefs append
\* the new review to u.reviews and to g.reviews
ReviewCtor(m, u, g) ==
    LET r == Len(m.Review) + 1
    IN [m EXCEPT !.Review = Append(@, [score |-> SampleScore, comment |-> FakeSentence(r),
                                       user |-> u, game |-> g]),
                 !.User[u].reviews = Append(@, r),
                 !.Game[g].reviews = Append(@, r),
                 !.constructed = Append(@, [user |-> u, game |-> g])]

RECURSIVE ReviewsOf(_, _, _)
\* the body of the inner loop, once per element of gs (the games rc picks):
\* r = Review(..., user=u, game=rc(games)); reviews.append(r)
ReviewsOf(m, u, gs) ==
    IF gs = <<>> THEN m
    ELSE LET m1 == ReviewCtor(m, u, Head(gs))
         IN ReviewsOf([m1 EXCEPT !.reviews = Append(@, Len(m1.Review))], u, Tail(gs))

\* the loop body with `r.game = g` for `g.review = r`: the backref moves r
\* from the reviews of its game to those of g
LoopBody_reassigning(m, g, r) ==
    LET old == m.Review[r].game
        m1 == [m EXCEPT !.Game[old].reviews = Remove(@, r)]
    IN [m1 EXCEPT !.Review[r].game = g,
                  !.Game[g].reviews = Append(@, r),
                  !.reviews = Remove(@, r),
                  !.g = g]

\* g.review = r; reviews.remove(r)
LoopBody(m, g, r) ==
    [m EXCEPT !.Game[g].review = r, !.reviews = Remove(@, r), !.g = g]

NextId(table) ==
    IF table = <<>> THEN 1
    ELSE 1 + CHOOSE n \in {table[i].id : i \in 1..Len(table)} :
                 \A i \in 1..Len(table) : table[i].id <= n

\* the INSERTs the flush of the session emits: users, games, then reviews
\* with the foreign keys of the objects they reference
Flush(t, m) ==
    LET uid(i) == IF i = 0 THEN NullId ELSE NextId(t.users) + i - 1
        gid(i) == IF i = 0 THEN NullId ELSE NextId(t.games) + i - 1
    IN [users |-> t.users \o
            [i \in 1..Len(m.User) |->
                [id |-> uid(i), name |-> m.User[i].name,
                 created_at |-> Now, updated_at |-> Null]],
        games |-> t.games \o
            [i \in 1..Len(m.Game) |->
                [id |-> gid(i), title |-> m.Game[i].title, genre |-> m.Game[i].genre,
                 platform |-> m.Game[i].platform, price |-> m.Game[i].price,
                 created_at |-> Now, updated_at |-> Null]],
        reviews |-> t.reviews \o
            [i \in 1..Len(m.Review) |->
                [id |-> NextId(t.reviews) + i - 1, score |-> m.Review[i].score,
                 comment |-> m.Review[i].comment,
                 created_at |-> Now, updated_at |-> Null,
                 game_id |-> gid(m.Review[i].game),
                 user_id |-> uid(m.Review[i].user)]]]

\* the UNIQUE constraint of games.title rejects the flush
IntegrityError(t) ==
    /\ Game_title_unique
    /\ \E i, j \in 1..Len(t.games) : i # j /\ t.games[i].title = t.games[j].title

SeedStep(pc) ==
    /\ program = "app"
    /\ seedpc = pc
    /\ request' = NoRequest
    /\ response' = NoResponse
    /\ UNCHANGED <<program, serverdb>>

\* Review.query.delete(), the first statement of the script's transaction
SeedDeleteReviews ==
    /\ SeedStep("idle")
    /\ txn' = [games |-> games_table, reviews |-> <<>>, users |-> users_table]
    /\ seedpc' = "delete_users"
    /\ UNCHANGED <<appdb, mem>>

\* User.query.delete()
SeedDeleteUsers ==
    /\ SeedStep("delete_users")
    /\ txn' = [txn EXCEPT !.users = <<>>]
    /\ seedpc' = "delete_games"
    /\ UNCHANGED <<appdb, mem>>

\* Game.query.delete()
SeedDeleteGames ==
    /\ SeedStep("delete_games")
    /\ txn' = [txn EXCEPT !.games = <<>>]
    /\ seedpc' = "users"
    /\ UNCHANGED <<appdb, mem>>

\* the users loop and db.session.add_all(users)
SeedUsers ==
    /\ SeedStep("users")
    /\ mem' = [mem EXCEPT !.User =
                  [i \in 1..NumSeeded |-> [name |-> FakeName, reviews |-> <<>>]]]
    /\ seedpc' = "games"
    /\ UNCHANGED <<appdb, txn>>

\* one iteration of the games loop; db.session.add_all(games) after the last.
\* The title is a sentence Faker has not returned before, or one it has.
SeedGame ==
    /\ SeedStep("games")
    /\ \E i \in 1..(Len(mem.Game) + 1) :
          mem' = [mem EXCEPT !.Game = Append(@,
                    [title |-> FakeSentence(i), genre |-> SampleGenre,
                     platform |-> SamplePlatform, price |-> SamplePrice,
                     reviews |-> <<>>, review |-> 0])]
    /\ seedpc' = IF Len(mem.Game) + 1 = NumSeeded THEN "reviews" ELSE "games"
    /\ UNCHANGED <<appdb, txn>>

\* one iteration of `for u in users`; db.session.add_all(reviews) after the last
SeedReviews ==
    /\ SeedStep("reviews")
    /\ \E n \in ReviewCounts : \E gs \in [1..n -> 1..NumSeeded] :
          mem' = [ReviewsOf(mem, mem.u + 1, gs) EXCEPT !.u = mem.u + 1]
    /\ seedpc' = IF mem.u + 1 = NumSeeded THEN "loop" ELSE "reviews"
    /\ UNCHANGED <<appdb, txn>>

\* one iteration of `for g in games`: rc(reviews) raises IndexError on an
\* empty list, and the script ends without a commit
SeedLoop ==
    /\ SeedStep("loop")
    /\ IF mem.reviews = <<>>
       THEN /\ seedpc' = "failed"
            /\ UNCHANGED mem
       ELSE /\ \E r \in SeqToSet(mem.reviews) : mem' = LoopBody(mem, mem.g + 1, r)
            /\ seedpc' = IF mem.g + 1 = NumSeeded THEN "commit" ELSE "loop"
    /\ UNCHANGED <<appdb, txn>>

\* db.session.commit(): the flush and the COMMIT, or the rollback of the
\* whole transaction when the flush raises
SeedCommit ==
    /\ SeedStep("commit")
    /\ LET t == Flush(txn, mem)
       IN IF IntegrityError(t)
          THEN /\ seedpc' = "failed"
               /\ txn' = NoTxn
               /\ UNCHANGED appdb
          ELSE /\ seedpc' = "committed"
               /\ txn' = t
               /\ games_table' = t.games
               /\ reviews_table' = t.reviews
               /\ users_table' = t.users
    /\ UNCHANGED mem

\* the process of the script ends
SeedExit ==
    /\ program = "app"
    /\ seedpc \in {"committed", "failed"}
    /\ seedpc' = "idle"
    /\ mem' = EmptyMem
    /\ txn' = NoTxn
    /\ request' = NoRequest
    /\ response' = NoResponse
    /\ UNCHANGED <<program, appdb, serverdb>>

(***************************************************************************)
(* server/app.py: the Newsletter RESTful API                               *)
(***************************************************************************)
\* the columns of Newsletter (server/models.py)
Newsletter_columns == {"id", "title", "body"}

\* Newsletter.to_dict(): a model without relationships
Newsletter_to_dict(row) == [k \in Newsletter_columns |-> row[k]]

\* request.form of a POST: any of the two fields may be absent
Forms == UNION {[S -> FormValues] : S \in SUBSET {"title", "body"}}

Index_get ==
    /\ program = "server"
    /\ request' = Get("/")
    /\ response' = MakeResponse(
            [index |-> "Welcome to the Newsletter RESTful API"], 200)
    /\ UNCHANGED <<program, appdb, seedvars, serverdb>>

Newsletters_get ==
    /\ program = "server"
    /\ request' = Get("/newsletters")
    /\ response' = MakeResponse(
            [i \in 1..Len(newsletters) |-> Newsletter_to_dict(newsletters[i])], 200)
    /\ UNCHANGED <<program, appdb, seedvars, serverdb>>

\* a post that answers 201 without db.session.add / commit
Newsletters_post_uncommitted(form) ==
    /\ program = "server"
    /\ request' = Post("/newsletters", form)
    /\ IF {"title", "body"} \subseteq DOMAIN form
       THEN /\ Len(newsletters) < MaxNewsletters
            /\ LET new_record == [id |-> NextId(newsletters),
                                  title |-> form.title, body |-> form.body]
               IN /\ newsletters' = newsletters
                  /\ response' = MakeResponse(Newsletter_to_dict(new_record), 201)
                  /\ created' = created \cup {Newsletter_to_dict(new_record)}
       ELSE /\ response' = BadRequest
            /\ UNCHANGED serverdb
    /\ UNCHANGED <<program, appdb, seedvars>>

\* a post that reads the form with request.form.get: a missing field is None
Newsletters_post_with_get(form) ==
    /\ program = "server"
    /\ request' = Post("/newsletters", form)
    /\ Len(newsletters) < MaxNewsletters
    /\ LET field(k) == IF k \in DOMAIN form THEN form[k] ELSE Null
           new_record == [id |-> NextId(newsletters),
                          title |-> field("title"), body |-> field("body")]
       IN /\ newsletters' = Append(newsletters, new_record)
          /\ response' = MakeResponse(Newsletter_to_dict(new_record), 201)
          /\ created' = created \cup {Newsletter_to_dict(new_record)}
    /\ UNCHANGED <<program, appdb, seedvars>>

\* request.form['title'] and request.form['body'] raise BadRequestKeyError
\* on a missing key, before Newsletter(...) is constructed
Newsletters_post(form) ==
    /\ program = "server"
    /\ request' = Post("/newsletters", form)
    /\ IF {"title", "body"} \subseteq DOMAIN form
       THEN /\ Len(newsletters) < MaxNewsletters
            /\ LET new_record == [id |-> NextId(newsletters),
                                  title |-> form.title, body |-> form.body]
               IN /\ newsletters' = Append(newsletters, new_record)
                  /\ response' = MakeResponse(Newsletter_to_dict(new_record), 201)
                  /\ created' = created \cup {Newsletter_to_dict(new_record)}
       ELSE /\ response' = BadRequest
            /\ UNCHANGED serverdb
    /\ UNCHANGED <<program, appdb, seedvars>>

NewsletterByID_get(id) ==
    /\ program = "server"
    /\ request' = GetById("/newsletters/<int:id>", id)
    /\ LET found == SelectRows(newsletters, "id", id)
       IN response' = IF found = <<>>
                      THEN InternalServerError   \* None.to_dict(): AttributeError
                      ELSE MakeResponse(Newsletter_to_dict(found[1]), 200)
    /\ UNCHANGED <<program, appdb, seedvars, serverdb>>

(***************************************************************************)
(* newsletters/app.py: the index-only API                                  *)
(***************************************************************************)
newsletters_Index_get ==
    /\ program = "newsletters"
    /\ request' = Get("/")
    /\ response' = MakeResponse(
            [index |-> "Welcome to the Newsletter RESTful API"], 200)
    /\ UNCHANGED <<program, appdb, seedvars, serverdb>>

(***************************************************************************)
(* The specification                                                       *)
(***************************************************************************)
Programs == {"app", "server", "newsletters"}

Init ==
    /\ program \in Programs
    /\ games_table = <<>>
    /\ reviews_table = <<>>
    /\ users_table = <<>>
    /\ seedpc = "idle"
    /\ txn = NoTxn
    /\ mem = EmptyMem
    /\ newsletters = <<>>
    /\ created = {}
    /\ request = NoRequest
    /\ response = NoResponse

Next ==
    \/ index
    \/ games
    \/ \E id \in GameIds : game_by_id(id)
    \/ reviews
    \/ users
    \/ SeedDeleteReviews
    \/ SeedDeleteUsers
    \/ SeedDeleteGames
    \/ SeedUsers
    \/ SeedGame
    \/ SeedReviews
    \/ SeedLoop
    \/ SeedCommit
    \/ SeedExit
    \/ Index_get
    \/ Newsletters_get
    \/ \E form \in Forms : Newsletters_post(form)
    \/ \E id \in NewsletterIds : NewsletterByID_get(id)
    \/ newsletters_Index_get

Spec == Init /\ [][Next]_vars

(***************************************************************************)
(* Properties                                                              *)
(***************************************************************************)
StoredToDict(type, row) == ToDict(games_table, reviews_table, users_table, type, row)

\* the ids of the stored reviews whose foreign key col holds id
ReviewIdsOf(col, id) ==
    {reviews_table[i].id : i \in {j \in 1..Len(reviews_table) : reviews_table[j][col] = id}}

\* m is the mapping of an entity with a to-many `reviews`: every column of the
\* row is in it, and `reviews` is a sequence with one mapping per associated
\* review, none of which has the key back
OwnerMapping(m, type, row, col, back) ==
    /\ Columns(type) \subseteq DOMAIN m
    /\ \A c \in Columns(type) : m[c] = row[c]
    /\ "reviews" \in DOMAIN m
    /\ DOMAIN m.reviews = 1..Cardinality(ReviewIdsOf(col, row.id))
    /\ {m.reviews[j].id : j \in DOMAIN m.reviews} = ReviewIdsOf(col, row.id)
    /\ \A j \in DOMAIN m.reviews : back \notin DOMAIN m.reviews[j]

\* C1: serializing any stored Game (resp. User) gives a mapping with the
\* entity's scalar fields and a `reviews` sequence holding exactly one mapping
\* per Review of that Game (resp. User), empty when it has none, and no
\* element of the sequence has a `game` (resp. `user`) key.
C1_OwnerSerialization ==
    /\ \A i \in 1..Len(games_table) :
          OwnerMapping(StoredToDict("Game", games_table[i]), "Game",
                       games_table[i], "game_id", "game")
    /\ \A i \in 1..Len(users_table) :
          OwnerMapping(StoredToDict("User", users_table[i]), "User",
                       users_table[i], "user_id", "user")
    /\ (request.path = "/games/<int:id>" /\ response.status = 200) =>
          \E i \in 1..Len(games_table) :
              /\ games_table[i].id = request.id
              /\ OwnerMapping(response.body, "Game", games_table[i], "game_id", "game")
    /\ (request.path = "/users" /\ response.status = 200) =>
          /\ DOMAIN response.body = 1..Len(users_table)
          /\ \A i \in 1..Len(users_table) :
                OwnerMapping(response.body[i], "User", users_table[i], "user_id", "user")

\* GET /games/<id> has answered a Game without reviews with an empty
\* sequence, while another stored Game has two reviews and every User has one
C1_Witness ==
    /\ request.path = "/games/<int:id>"
    /\ response.status = 200
    /\ response.body.reviews = <<>>
    /\ \E i \in 1..Len(games_table) :
          Cardinality(ReviewIdsOf("game_id", games_table[i].id)) = 2
    /\ users_table # <<>>
    /\ \A i \in 1..Len(users_table) :
          Len(StoredToDict("User", users_table[i]).reviews) = 1

\* m is the mapping of row as a nested to-one value: its columns, no `reviews`
NestedMapping(m, type, row) ==
    /\ DOMAIN m = Columns(type)
    /\ \A c \in Columns(type) : m[c] = row[c]
    /\ "reviews" \notin DOMAIN m

ReviewMapping(m, row) ==
    /\ Review_columns \subseteq DOMAIN m
    /\ \A c \in Review_columns : m[c] = row[c]
    /\ "game" \in DOMAIN m
    /\ "user" \in DOMAIN m
    /\ \E i \in 1..Len(games_table) :
          games_table[i].id = row.game_id /\ NestedMapping(m.game, "Game", games_table[i])
    /\ \E i \in 1..Len(users_table) :
          users_table[i].id = row.user_id /\ NestedMapping(m.user, "User", users_table[i])

\* C2: serializing a Review that references a Game and a User, as GET /reviews
\* does, gives a mapping with a `game` key holding the serialized Game and a
\* `user` key holding the serialized User, neither with a `reviews` key.
C2_ReviewSerialization ==
    /\ \A i \in 1..Len(reviews_table) :
          ReviewMapping(StoredToDict("Review", reviews_table[i]), reviews_table[i])
    /\ (request.path = "/reviews" /\ response.status # 0) =>
          /\ response.status = 200
          /\ DOMAIN response.body = 1..Len(reviews_table)
          /\ \A i \in 1..Len(reviews_table) :
                ReviewMapping(response.body[i], reviews_table[i])

\* GET /reviews has answered with the mappings of two reviews of one game
C2_Witness ==
    /\ request.path = "/reviews"
    /\ response.status = 200
    /\ Len(response.body) = 2
    /\ response.body[1].game.id = response.body[2].game.id
    /\ response.body[1].user.id # response.body[2].user.id

StoredPaths(type, row) ==
    TraversalPaths(games_table, reviews_table, users_table, type, row)

\* the traversal from row ends within the recursion limit, reaches no entity
\* twice through the same relationship on one path, and nests at most three
\* mappings (a path of at most two relationships)
BoundedTraversal(type, row) ==
    \A p \in StoredPaths(type, row) :
        /\ \A i \in 1..Len(p) : p[i][1] # RecursionError
        /\ \A i, j \in 1..Len(p) : i # j => p[i] # p[j]
        /\ Len(p) <= 2

\* C3: under the declared rule sets, serialization started at any stored
\* Game, Review or User terminates: no entity is reached twice through the
\* same relationship on one traversal path, and the nesting depth is at most
\* three whatever the number of entities and the cycles among them.
C3_SerializationTerminates ==
    /\ \A i \in 1..Len(games_table) : BoundedTraversal("Game", games_table[i])
    /\ \A i \in 1..Len(reviews_table) : BoundedTraversal("Review", reviews_table[i])
    /\ \A i \in 1..Len(users_table) : BoundedTraversal("User", users_table[i])
    /\ (request.method = "GET" /\ request.path \in {"/reviews", "/users"}) =>
          response.status = 200
    /\ (request.path = "/games/<int:id>"
          /\ \E i \in 1..Len(games_table) : games_table[i].id = request.id) =>
          response.status = 200

\* GET /games/<id> has answered with three nested mappings (game, review,
\* user) for a game in a cycle game -> review -> game, and the innermost
\* mapping goes no further
C3_Witness ==
    /\ request.path = "/games/<int:id>"
    /\ response.status = 200
    /\ Len(response.body.reviews) = 2
    /\ DOMAIN response.body.reviews[1].user = User_columns
    /\ \E p \in StoredPaths("Game", games_table[request.id]) : Len(p) = 2

\* the last request asked a by-identifier route for an identifier that no
\* stored entity has
AbsentIdRequested ==
    \/ /\ request.path = "/games/<int:id>"
       /\ \A i \in 1..Len(games_table) : games_table[i].id # request.id
    \/ /\ request.path = "/newsletters/<int:id>"
       /\ \A i \in 1..Len(newsletters) : newsletters[i].id # request.id

\* C4: GET /games/<id> and GET /newsletters/<id> answer an identifier for
\* which no entity is stored with a 404-equivalent not-found response, not
\* with an unhandled failure.
C4_NotFound == AbsentIdRequested => response.status = 404

\* POST /newsletters with both fields inserts exactly one row holding them
\* and answers 201 with its mapping
PostInserts ==
    (request'.method = "POST" /\ {"title", "body"} \subseteq DOMAIN request'.form) =>
        /\ response'.status = 201
        /\ Len(newsletters') = Len(newsletters) + 1
        /\ SubSeq(newsletters', 1, Len(newsletters)) = newsletters
        /\ LET n == newsletters'[Len(newsletters')]
           IN /\ n.title = request'.form.title
              /\ n.body = request'.form.body
              /\ \A i \in 1..Len(newsletters) : newsletters[i].id # n.id
              /\ response'.body = [id |-> n.id, title |-> n.title, body |-> n.body]
              /\ response'.body \in created'

\* every mapping a POST has answered is what the two GET routes answer
CreatedStaysReadable ==
    /\ (request.method = "GET" /\ request.path = "/newsletters") =>
          /\ response.status = 200
          /\ \A m \in created : \E i \in DOMAIN response.body : response.body[i] = m
    /\ (request.path = "/newsletters/<int:id>"
          /\ \E m \in created : m.id = request.id) =>
          /\ response.status = 200
          /\ response.body \in created
          /\ response.body.id = request.id

\* C5: a POST /newsletters with form fields title and body inserts exactly
\* one Newsletter with those values and answers 201 with its mapping m; in
\* every later state GET /newsletters answers 200 with a sequence containing m
\* and GET /newsletters/<m.id> answers 200 with a mapping equal to m.
C5_PostThenReadable == [][PostInserts]_vars /\ []CreatedStaysReadable

\* GET /newsletters/1 has answered the first of two created newsletters
\* after the second was posted
C5_Witness ==
    /\ request.path = "/newsletters/<int:id>"
    /\ request.id = 1
    /\ response.status = 200
    /\ Cardinality(created) = 2
    /\ response.body \in created

\* C6: in every committed state of the database, every stored Review
\* references exactly one stored Game and exactly one stored User: no
\* reference is absent and none leads to a deleted row.
C6_ReviewsReferenceStoredRows ==
    \A i \in 1..Len(reviews_table) :
        /\ reviews_table[i].game_id # NullId
        /\ reviews_table[i].user_id # NullId
        /\ Cardinality({j \in 1..Len(games_table) :
                           games_table[j].id = reviews_table[i].game_id}) = 1
        /\ Cardinality({j \in 1..Len(users_table) :
                           users_table[j].id = reviews_table[i].user_id}) = 1

\* a run of the seed script has committed one review per user, on both the
\* first and the last game
C6_Witness ==
    /\ seedpc = "committed"
    /\ Len(reviews_table) = NumSeeded
    /\ \E i \in 1..Len(reviews_table) : reviews_table[i].game_id = games_table[1].id
    /\ \E i \in 1..Len(reviews_table) :
          reviews_table[i].game_id = games_table[Len(games_table)].id

DistinctTitles(table) ==
    \A i, j \in 1..Len(table) : i # j => table[i].title # table[j].title

\* db.session.commit() of a run that generated two Games with equal titles
\* fails and changes no table
DuplicateTitlesNotCommitted ==
    (seedpc = "commit" /\ ~DistinctTitles(mem.Game)) =>
        /\ seedpc' = "failed"
        /\ UNCHANGED <<games_table, reviews_table, users_table>>

\* C7: in every committed state of the database no two stored Games have the
\* same title, and a run of the seed script that generated two Games with
\* equal titles commits nothing.
C7_TitlesUnique == []DistinctTitles(games_table) /\ [][DuplicateTitlesNotCommitted]_vars

\* a seeding run with two equal titles has failed and left the rows of the
\* earlier run in place
C7_Witness ==
    /\ seedpc = "failed"
    /\ ~DistinctTitles(mem.Game)
    /\ Len(games_table) = NumSeeded

\* C8: when the seed script has run to completion, the two directions of
\* each relationship agree on its objects (r is in g.reviews iff r.game is g,
\* r is in u.reviews iff r.user is u), every Review's game and user are the
\* ones its construction set, the per-game loop notwithstanding, and the
\* committed foreign keys are those of the same objects.
C8_BackrefsAgree ==
    seedpc = "committed" =>
        /\ \A r \in 1..Len(mem.Review) :
              /\ \A g \in 1..Len(mem.Game) :
                    (r \in SeqToSet(mem.Game[g].reviews)) <=> (mem.Review[r].game = g)
              /\ \A u \in 1..Len(mem.User) :
                    (r \in SeqToSet(mem.User[u].reviews)) <=> (mem.Review[r].user = u)
              /\ mem.Review[r].game = mem.constructed[r].game
              /\ mem.Review[r].user = mem.constructed[r].user
              /\ reviews_table[r].game_id = games_table[mem.constructed[r].game].id
              /\ reviews_table[r].user_id = users_table[mem.constructed[r].user].id
        /\ Len(reviews_table) = Len(mem.Review)

\* the script has committed after its loop gave a Game a Review of another Game
C8_Witness ==
    /\ seedpc = "committed"
    /\ \E g \in 1..Len(mem.Game) :
          /\ mem.Game[g].review # 0
          /\ mem.Review[mem.Game[g].review].game # g
    /\ mem.reviews = <<>>

\* a step that serves a GET changes no table and nothing of the seed session,
\* and answers as the step before did when that served the same request
ReadLeavesStateUnchanged ==
    request'.method = "GET" =>
        /\ UNCHANGED <<games_table, reviews_table, users_table, newsletters, seedvars>>
        /\ (request' = request => response' = response)

\* C9: a read route (any GET) leaves the stored entities, their fields and
\* their relationships unchanged, and a read repeated with nothing in between
\* is answered as before.
C9_ReadsAreReadOnly == [][ReadLeavesStateUnchanged]_vars

\* GET /games has answered with the two stored games
C9_Witness ==
    /\ request.method = "GET"
    /\ request.path = "/games"
    /\ response.status = 200
    /\ Len(response.body) = 2
    /\ Len(games_table) = 2

\* a step that serves a POST without title or without body answers with an
\* error status and changes no row
IncompletePostRejected ==
    (request'.method = "POST" /\ ~({"title", "body"} \subseteq DOMAIN request'.form)) =>
        /\ response'.status # 201
        /\ response'.status >= 400
        /\ newsletters' = newsletters
        /\ created' = created

\* C10: a POST /newsletters whose form lacks title or body is answered with
\* an error, not 201, and leaves the stored Newsletters as they were.
C10_IncompletePostChangesNothing == [][IncompletePostRejected]_vars

\* a POST without a body has been refused while a newsletter is stored
C10_Witness ==
    /\ request.method = "POST"
    /\ DOMAIN request.form = {"title"}
    /\ response.status = 400
    /\ Len(newsletters) = 1

====
